---- MODULE Spec2Model ----
(***************************************************************************)
(* Headphone pager backend (app/server.py): pairing, the per-device        *)
(* message queue with TTL expiry, the long-poll wait/wake protocol and the *)
(* acknowledgment state machine.                                           *)
(*                                                                         *)
(* Every request handler is a process; it takes one step per `await` that  *)
(* can suspend it (a store operation, request.is_disconnected(), the wait  *)
(* on the device's condition, notify_device).  A store operation is atomic *)
(* (db_exec / db_fetchone hold _db_lock around one statement).  Time is a  *)
(* clock in ticks, SubSec ticks to the second; the clock may advance       *)
(* between any two steps.                                                  *)
(***************************************************************************)
EXTENDS Integers, Sequences, FiniteSets, TLC

(* ------------------------------ bounds --------------------------------- *)
\* ticks per second (the code's clock has 10^6 microseconds per second)
SubSec == 2
\* the clock stops MaxTime ticks after the initial state
MaxTime == 3
\* the queue specification: poll and enqueue requests
QueuePolls == 2
QueueEnqs == 2
\* the wait specification: poll and enqueue requests
WaitPolls == 2
WaitEnqs == 1
\* the ack specification: poll, enqueue and ack requests
AckPolls == 1
AckEnqs == 1
AckAcks == 2
\* the pairing specification: completion requests, and how many ticks
\* before the expiry of the issued code the window opens
PairCompletes == 2
PairLead == 2
StartCalls == 2
StartCompletes == 1
HubPolls == 2
HubEnqs == 1
ClampPolls == 2
KeepPolls == 2
KeepAcks == 1
\* the store specification: concurrent store operations
StoreCalls == 4
\* the auth specification: ack requests and the ticks of its clock
\* (one poll, one enqueue and one audio fetch go with them)
AuthAcks == 1
AuthTime == 2
\* the validation specification: enqueue requests
CheckEnqs == 1
\* the priority specification: enqueue requests (one poll goes with them)
PrioEnqs == 2

(* ------------------------- program constants --------------------------- *)
DEFAULT_MESSAGE_TTL_SECONDS == 600
PAIRING_CODE_TTL_SECONDS == 300
MAX_TTL_SECONDS == 86400
MIN_TIMEOUT == 1
MAX_TIMEOUT == 120

NoRow == 0          \* "no row" / None for a message id
NoTime == -1        \* None for a time
ADMIN_TOKEN == "dev-admin-token-change-me"

VARIABLES
    now,            \* the clock (utcnow() and time.monotonic()), in ticks
    clockEnd,       \* the last tick of the explored window
    devices,        \* table devices: device_id -> row
    pairing_codes,  \* table pairing_codes: code -> row
    messages,       \* table messages: message_id (1..Len) -> row
    conditions,     \* _device_conditions: device_id -> its Condition object
    poll,           \* messages_next requests
    enq,            \* enqueue_message requests
    ack,            \* ack_message requests
    complete,       \* pairing_complete requests
    lapsed,         \* history: message ids seen queued at or after expires_at
    audio_blobs,    \* table audio_blobs: the blob keys that have a row
    fetch,          \* get_audio requests
    db_lock,        \* _db_lock: whether it is held, and the tasks queued on it
    db_ops,         \* store operations (db_exec / db_fetchone / db_fetchall calls)
    start           \* pairing_start requests

vars == <<now, clockEnd, devices, pairing_codes, messages, conditions,
          poll, enq, ack, complete, lapsed, audio_blobs, fetch, db_lock, db_ops,
          start>>

\* the requests of each kind, numbered in the order they arrive
Polls == DOMAIN poll
Enqs == DOMAIN enq
Acks == DOMAIN ack
Completes == DOMAIN complete
Fetches == DOMAIN fetch
Starts == DOMAIN start
StoreOps == DOMAIN db_ops

(* ------------------------------ utilities ------------------------------ *)
\* dt_to_iso: the ISO string of instant t, as a number that orders the way
\* the strings do (the tables hold the strings, and SQL compares them as
\* text).  isoformat() drops the fraction when microsecond = 0, so
\* "...:05Z" meets "...:05.000001Z" at 'Z' against '.', and '.' < 'Z':
\* within one second the whole-second instant sorts after every other
\* instant of that second, and before the next second.
DtToIso(t) ==
    LET s == t \div SubSec
        u == t % SubSec
    IN  s * (SubSec + 1) + (IF u = 0 THEN SubSec ELSE u)

\* iso_to_dt: the instant an ISO string written by dt_to_iso stands for
IsoToDt(k) ==
    LET s == (k - 1) \div (SubSec + 1)
        r == k - s * (SubSec + 1)
    IN  s * SubSec + (IF r = SubSec THEN 0 ELSE r)

Seconds(n) == n * SubSec

MsgIds == 1..Len(messages)

\* history of C3: the messages that are queued while expires_at <= now
Lapsing(msgs, t) ==
    {i \in 1..Len(msgs) : /\ msgs[i].state = "queued"
                           /\ IsoToDt(msgs[i].expires_at) <= t}

(* -------------------------------- clock -------------------------------- *)
\* asyncio.wait_for(cond.wait(), timeout): the timer fires when it is due,
\* so the clock does not pass a waiting poll's timer.
TimerDue(p) == poll[p].pc = "waiting" /\ poll[p].timer <= now

Tick ==
    /\ now < clockEnd
    /\ \A p \in Polls : ~TimerDue(p)
    /\ now' = now + 1
    /\ lapsed' = lapsed \cup Lapsing(messages, now + 1)
    /\ UNCHANGED <<start, audio_blobs, fetch, db_lock, db_ops>>
    /\ UNCHANGED <<clockEnd, devices, pairing_codes, messages, conditions,
                   poll, enq, ack, complete>>

(* --------------------------- shared helpers ---------------------------- *)
\* the rows of `msgs` with the state of the ids in `ids` set to `st`
SetState(msgs, ids, st) ==
    [i \in 1..Len(msgs) |->
        IF i \in ids THEN [msgs[i] EXCEPT !.state = st] ELSE msgs[i]]

\* the history variable follows every write to the table
Hist(msgs) == lapsed' = lapsed \cup Lapsing(msgs, now)

Waiters(d) == {p \in Polls : poll[p].pc = "waiting" /\ poll[p].device_id = d}

(* --------------------------- auth dependency --------------------------- *)
\* a check that also lets the admin secret through
DeviceAuthOrAdmin(d, tok) ==
    /\ tok # ""
    /\ d \in DOMAIN devices
    /\ (devices[d].device_token = tok \/ tok = ADMIN_TOKEN)

\* a check that accepts the token of any paired device
DeviceAuthAnyDevice(d, tok) ==
    /\ tok # ""
    /\ d \in DOMAIN devices
    /\ \E x \in DOMAIN devices : devices[x].device_token = tok

\* require_device, first half: the token and the device row
DeviceAuthOk(d, tok) ==
    /\ tok # ""
    /\ d \in DOMAIN devices
    /\ devices[d].device_token = tok

(* ----------------------------- TTL sweep ------------------------------- *)
\* the UPDATE matching delivered rows as well as queued ones
SweepDelivered(d, t) ==
    {i \in MsgIds : /\ messages[i].state \in {"queued", "delivered"}
                    /\ messages[i].device_id = d
                    /\ messages[i].expires_at <= DtToIso(t)}

\* the UPDATE without `AND device_id = ?`: the rows of every device
SweepAllDevices(d, t) ==
    {i \in MsgIds : /\ messages[i].state = "queued"
                    /\ messages[i].expires_at <= DtToIso(t)}

\* expire_queued_messages(device_id): the rows its UPDATE matches; the SQL
\* compares the stored ISO string with dt_to_iso(utcnow())
SweepMatches(d, t) ==
    {i \in MsgIds : /\ messages[i].state = "queued"
                    /\ messages[i].device_id = d
                    /\ messages[i].expires_at <= DtToIso(t)}

\* a SELECT that lets urgent rows overtake normal ones
SelectUrgentFirstIn(msgs, d, t) ==
    LET M == {i \in 1..Len(msgs) : /\ msgs[i].device_id = d
                                    /\ msgs[i].state = "queued"
                                    /\ msgs[i].expires_at > DtToIso(t)}
        U == {i \in M : msgs[i].priority = "urgent"}
        F == IF U # {} THEN U ELSE M
    IN  {i \in F : \A j \in F : msgs[i].created_at <= msgs[j].created_at}

\* fetch_next_message's SELECT over the table msgs: the rows of the WHERE
\* clause ...
SelectMatchesIn(msgs, d, t) ==
    {i \in 1..Len(msgs) : /\ msgs[i].device_id = d
                           /\ msgs[i].state = "queued"
                           /\ msgs[i].expires_at > DtToIso(t)}

\* ... and those ORDER BY created_at ASC LIMIT 1 can return (ties between
\* equal created_at strings are left to the engine)
SelectFirstIn(msgs, d, t) ==
    {i \in SelectMatchesIn(msgs, d, t) :
        \A j \in SelectMatchesIn(msgs, d, t) :
            msgs[i].created_at <= msgs[j].created_at}

SelectMatches(d, t) == SelectMatchesIn(messages, d, t)

SelectFirst(d, t) == SelectFirstIn(messages, d, t)

\* the UPDATE without its `AND state = 'queued'`
DeliverUnguarded(i) == {j \in {i} : j \in MsgIds}

\* UPDATE messages SET state = 'delivered' WHERE message_id = ? AND state = 'queued'
DeliverMatches(i) == {j \in {i} : j \in MsgIds /\ messages[j].state = "queued"}

(* --------------------------- messages_next ----------------------------- *)
\* the clamp without its lower limit
ClampUpperOnly(n) == IF n > MAX_TIMEOUT THEN MAX_TIMEOUT ELSE n

\* if timeout < 1: timeout = 1; if timeout > 120: timeout = 120
ClampTimeout(n) ==
    IF n < MIN_TIMEOUT THEN MIN_TIMEOUT
    ELSE IF n > MAX_TIMEOUT THEN MAX_TIMEOUT ELSE n

IdlePoll ==
    [pc |-> "idle", device_id |-> 0, token |-> "", timeout |-> 0, row |-> NoRow,
     deadline |-> NoTime, remaining |-> 0, timer |-> NoTime, gone |-> "",
     woken |-> FALSE, result |-> "", cond |-> 0]

\* the response; what the request no longer reads is dropped
PollEnd(p, res) ==
    poll' = [poll EXCEPT ![p].pc = "done", ![p].result = res, ![p].token = "",
                         ![p].timeout = 0, ![p].remaining = 0, ![p].timer = NoTime]

\* require_device: SELECT the device, compare the token (401 otherwise)
PollAuth(p, d, tok, n) ==
    /\ poll[p].pc = "idle"
    /\ IF DeviceAuthOk(d, tok)
       THEN poll' = [poll EXCEPT ![p].pc = "seen", ![p].device_id = d,
                                 ![p].token = tok, ![p].timeout = n]
       ELSE poll' = [poll EXCEPT ![p].pc = "done", ![p].device_id = d,
                                 ![p].token = tok, ![p].result = "401"]
    /\ UNCHANGED <<start, audio_blobs, fetch, db_lock, db_ops>>
    /\ UNCHANGED <<now, clockEnd, devices, pairing_codes, messages, conditions,
                   enq, ack, complete, lapsed>>

\* require_device: UPDATE devices SET last_seen_at
PollSeen(p) ==
    /\ poll[p].pc = "seen"
    /\ devices' = [devices EXCEPT ![poll[p].device_id].last_seen_at = DtToIso(now)]
    /\ poll' = [poll EXCEPT ![p].pc = "sweep"]
    /\ UNCHANGED <<start, audio_blobs, fetch, db_lock, db_ops>>
    /\ UNCHANGED <<now, clockEnd, pairing_codes, messages, conditions,
                   enq, ack, complete, lapsed>>

\* require_device: the UPDATE of last_seen_at raises (sqlite3.Error out of
\* db_exec); nothing catches it, so the request ends with a server error
PollSeenFails(p) ==
    /\ poll[p].pc = "seen"
    /\ PollEnd(p, "500")
    /\ UNCHANGED <<start, audio_blobs, fetch, db_lock, db_ops>>
    /\ UNCHANGED <<now, clockEnd, devices, pairing_codes, messages, conditions,
                   enq, ack, complete, lapsed>>

\* fetch_next_message: expire_queued_messages(device_id)
PollSweep(p) ==
    /\ poll[p].pc = "sweep"
    /\ messages' = SetState(messages, SweepMatches(poll[p].device_id, now), "expired")
    /\ poll' = [poll EXCEPT ![p].pc = "select"]
    /\ Hist(messages')
    /\ UNCHANGED <<start, audio_blobs, fetch, db_lock, db_ops>>
    /\ UNCHANGED <<now, clockEnd, devices, pairing_codes, conditions,
                   enq, ack, complete>>

\* a re-check after a wake that finds nothing answers 204 at once
AfterEmptyGiveUp(p) ==
    IF poll[p].deadline = NoTime
    THEN [poll[p] EXCEPT !.pc = "head", !.row = NoRow]
    ELSE [poll[p] EXCEPT !.pc = "done", !.row = NoRow, !.token = "", !.timeout = 0,
                         !.result = "204-timeout"]

\* `if row:` is false: the fast path falls through to the wait, and the
\* re-check after a wake goes round the `while True` loop
AfterEmpty(p) == [poll[p] EXCEPT !.pc = "head", !.row = NoRow]

\* fetch_next_message: the SELECT; `if row:` goes to the UPDATE, else to the wait
PollSelect(p) ==
    /\ poll[p].pc = "select"
    /\ IF SelectFirst(poll[p].device_id, now) = {}
       THEN poll' = [poll EXCEPT ![p] = AfterEmpty(p)]
       ELSE \E i \in SelectFirst(poll[p].device_id, now) :
                poll' = [poll EXCEPT ![p].pc = "deliver", ![p].row = i]
    /\ UNCHANGED <<start, audio_blobs, fetch, db_lock, db_ops>>
    /\ UNCHANGED <<now, clockEnd, devices, pairing_codes, messages, conditions,
                   enq, ack, complete, lapsed>>

\* the UPDATE to 'delivered' and the response that carries the selected row
PollDeliver(p) ==
    /\ poll[p].pc = "deliver"
    /\ messages' = SetState(messages, DeliverMatches(poll[p].row), "delivered")
    /\ PollEnd(p, "200")
    /\ Hist(messages')
    /\ UNCHANGED <<start, audio_blobs, fetch, db_lock, db_ops>>
    /\ UNCHANGED <<now, clockEnd, devices, pairing_codes, conditions,
                   enq, ack, complete>>

\* asyncio.Condition(): a new object, numbered after those made so far
NewCondition(conds) ==
    LET made == {conds[d] : d \in DOMAIN conds}
    IN IF made = {} THEN 1 ELSE 1 + CHOOSE n \in made : \A m \in made : m <= n

\* _get_condition without its lookup: a new object on every call
GetConditionAnew(conds, d) ==
    [k \in DOMAIN conds \cup {d} |-> IF k = d THEN NewCondition(conds) ELSE conds[k]]

\* _get_condition, the dictionary after the call: under _conditions_lock,
\* the entry of the device if there is one, else a new object stored for it
GetCondition(conds, d) ==
    IF d \in DOMAIN conds THEN conds
    ELSE [k \in DOMAIN conds \cup {d} |->
             IF k = d THEN NewCondition(conds) ELSE conds[k]]

\* a deadline taken anew on every pass of the loop
DeadlineFromNow(p) == now + Seconds(ClampTimeout(poll[p].timeout))

\* `deadline = time.monotonic() + timeout`, set before the loop and read on
\* every pass
Deadline(p) ==
    IF poll[p].deadline = NoTime
    THEN now + Seconds(ClampTimeout(poll[p].timeout))
    ELSE poll[p].deadline

\* the time a wait started now may last: deadline - time.monotonic()
Remaining(deadline, t) == deadline - t

\* the timeout handed to asyncio.wait_for, counted from the start of the wait
WaitTimer(remaining, t) == t + remaining

\* _get_condition and `deadline = time.monotonic() + timeout` on the first
\* pass, then the head of the loop: remaining <= 0 returns 204
PollHead(p) ==
    /\ poll[p].pc = "head"
    /\ LET first == poll[p].cond = 0
           conds == IF first THEN GetCondition(conditions, poll[p].device_id)
                    ELSE conditions
           cond == IF first THEN conds[poll[p].device_id] ELSE poll[p].cond
           dl == Deadline(p)
           rem == Remaining(dl, now)
       IN  /\ conditions' = conds
           /\ IF rem <= 0
              THEN poll' = [poll EXCEPT ![p].pc = "done", ![p].deadline = dl,
                                        ![p].cond = cond,
                                        ![p].token = "", ![p].timeout = 0,
                                        ![p].result = "204-deadline"]
              ELSE poll' = [poll EXCEPT ![p].pc = "disc", ![p].deadline = dl,
                                        ![p].cond = cond,
                                        ![p].remaining = rem]
    /\ UNCHANGED <<start, audio_blobs, fetch, db_lock, db_ops>>
    /\ UNCHANGED <<now, clockEnd, devices, pairing_codes, messages,
                   enq, ack, complete, lapsed>>

\* `await request.is_disconnected()` answers; if connected the poll takes the
\* condition and waits with timeout = remaining
PollDisc(p) ==
    /\ poll[p].pc = "disc"
    /\ IF poll[p].gone # ""
       THEN PollEnd(p, "204-disconnected")
       ELSE poll' = [poll EXCEPT ![p].pc = "waiting", ![p].remaining = 0,
                                 ![p].timer = WaitTimer(poll[p].remaining, now)]
    /\ UNCHANGED <<start, audio_blobs, fetch, db_lock, db_ops>>
    /\ UNCHANGED <<now, clockEnd, devices, pairing_codes, messages, conditions,
                   enq, ack, complete, lapsed>>

\* asyncio.TimeoutError: return 204
PollTimeout(p) ==
    /\ TimerDue(p)
    /\ PollEnd(p, "204-timeout")
    /\ UNCHANGED <<start, audio_blobs, fetch, db_lock, db_ops>>
    /\ UNCHANGED <<now, clockEnd, devices, pairing_codes, messages, conditions,
                   enq, ack, complete, lapsed>>

\* the client closes the connection of a request in progress; `gone` keeps
\* whether the request was then suspended in the wait, ahead of its deadline
ClientGone(p) ==
    /\ poll[p].pc \notin {"idle", "done"}
    /\ poll[p].gone = ""
    /\ poll' = [poll EXCEPT ![p].gone =
                  IF poll[p].pc = "waiting" /\ now < poll[p].deadline
                  THEN "waiting" ELSE "running"]
    /\ UNCHANGED <<start, audio_blobs, fetch, db_lock, db_ops>>
    /\ UNCHANGED <<now, clockEnd, devices, pairing_codes, messages, conditions,
                   enq, ack, complete, lapsed>>

(* --------------------------- enqueue_message --------------------------- *)
IdleEnq ==
    [pc |-> "idle", token |-> "", device_id |-> 0, type |-> "", text |-> "",
     audioBlobKey |-> "", priority |-> "", ttlSeconds |-> NoTime, expiresAt |-> NoTime,
     created |-> NoTime, expires |-> NoTime, message_id |-> NoRow, result |-> ""]

\* str.strip(), on the texts the requests carry
Strip(text) == IF text = " " THEN "" ELSE text

\* payload checks that look at the text only
PayloadErrorTextOnly(type, text, audioBlobKey) ==
    IF type = "tts" /\ (text = "" \/ Strip(text) = "") THEN "400-text" ELSE ""

\* lines 1468-1473: the payload checks that need no lookup ("" passes);
\* an absent text or audioBlobKey is ""
PayloadError(type, text, audioBlobKey) ==
    IF type = "tts"
    THEN (IF text = "" \/ Strip(text) = "" THEN "400-text" ELSE "")
    ELSE IF type = "audio"
    THEN (IF audioBlobKey = "" THEN "400-audio-key" ELSE "")
    ELSE ""

\* the expiry without the upper limit on the TTL
ComputeExpiresNoLimit(created, ttlSeconds, expiresAt) ==
    IF expiresAt # NoTime
    THEN IsoToDt(expiresAt)
    ELSE LET ttl == IF ttlSeconds # NoTime THEN ttlSeconds
                    ELSE DEFAULT_MESSAGE_TTL_SECONDS
         IN  IF ttl <= 0 THEN NoTime ELSE created + Seconds(ttl)

\* lines 1478-1488: the expiry of a request made at `created`; NoTime stands
\* for the 400 "ttlSeconds must be between 1 and 86400"
ComputeExpires(created, ttlSeconds, expiresAt) ==
    IF expiresAt # NoTime
    THEN IsoToDt(expiresAt)
    ELSE LET ttl == IF ttlSeconds # NoTime THEN ttlSeconds
                    ELSE DEFAULT_MESSAGE_TTL_SECONDS
         IN  IF ttl <= 0 \/ ttl > MAX_TTL_SECONDS THEN NoTime
             ELSE created + Seconds(ttl)

\* an expiry check that lets expires = created through
ExpiryNotPast(created, expires) == expires >= created

\* `if expires <= created: raise 400`
ExpiryInFuture(created, expires) == expires > created

\* lines 1478-1488: created = utcnow(), the expiry and its checks ("" passes)
ExpiryError(created, ttlSeconds, expiresAt) ==
    LET expires == ComputeExpires(created, ttlSeconds, expiresAt)
    IN  IF expires = NoTime THEN "400-ttl"
        ELSE IF ~ExpiryInFuture(created, expires) THEN "400-expiry"
        ELSE ""

\* a request and what it carries: the bearer token, the path's device_id and
\* the EnqueueMessageRequest body
Request(tok, d, type, text, audioBlobKey, priority, ttlSeconds, expiresAt) ==
    [IdleEnq EXCEPT !.token = tok, !.device_id = d, !.type = type, !.text = text,
                    !.audioBlobKey = audioBlobKey, !.priority = priority,
                    !.ttlSeconds = ttlSeconds, !.expiresAt = expiresAt]

\* raise HTTPException: the request ends, what it carried is kept for the record
Rejected(r, res) == [r EXCEPT !.pc = "done", !.result = res]

\* created = utcnow() and the expiry checks: 400, or on to the INSERT with
\* the values it will store
Validated(r) ==
    IF ExpiryError(now, r.ttlSeconds, r.expiresAt) # ""
    THEN Rejected([r EXCEPT !.created = now],
                  ExpiryError(now, r.ttlSeconds, r.expiresAt))
    ELSE [IdleEnq EXCEPT !.pc = "insert", !.device_id = r.device_id, !.type = r.type,
                         !.text = Strip(r.text), !.audioBlobKey = r.audioBlobKey,
                         !.priority = r.priority, !.created = now,
                         !.ttlSeconds = r.ttlSeconds, !.expiresAt = r.expiresAt,
                         !.expires = ComputeExpires(now, r.ttlSeconds, r.expiresAt)]

\* require_admin, the SELECT of the device and the payload checks; type=tts
\* goes on (no await in between) to created = utcnow() and the expiry
\* checks, type=audio to the SELECT of the blob
EnqDevice(e, tok, d, type, text, audioBlobKey, priority, ttlSeconds, expiresAt) ==
    /\ enq[e].pc = "idle"
    /\ LET r == Request(tok, d, type, text, audioBlobKey, priority,
                        ttlSeconds, expiresAt)
           res == IF tok = "" \/ tok # ADMIN_TOKEN THEN "401"
                  ELSE IF d \notin DOMAIN devices THEN "404"
                  ELSE PayloadError(type, text, audioBlobKey)
       IN  enq' = [enq EXCEPT ![e] =
                     IF res # "" THEN Rejected(r, res)
                     ELSE IF type = "audio" THEN [r EXCEPT !.pc = "blob"]
                     ELSE Validated(r)]
    /\ UNCHANGED <<start, audio_blobs, fetch, db_lock, db_ops>>
    /\ UNCHANGED <<now, clockEnd, devices, pairing_codes, messages, conditions,
                   poll, ack, complete, lapsed>>

\* type=audio: the SELECT of the blob (400 if there is none), then
\* created = utcnow() and the expiry checks
EnqBlob(e) ==
    /\ enq[e].pc = "blob"
    /\ enq' = [enq EXCEPT ![e] =
                  IF enq[e].audioBlobKey \notin audio_blobs
                  THEN Rejected(enq[e], "400-blob")
                  ELSE Validated(enq[e])]
    /\ UNCHANGED <<start, audio_blobs, fetch, db_lock, db_ops>>
    /\ UNCHANGED <<now, clockEnd, devices, pairing_codes, messages, conditions,
                   poll, ack, complete, lapsed>>

\* the row of the INSERT
NewMessage(r) ==
    [device_id |-> r.device_id, type |-> r.type, text |-> r.text,
     audio_blob_key |-> r.audioBlobKey, priority |-> r.priority,
     created_at |-> DtToIso(r.created), expires_at |-> DtToIso(r.expires),
     state |-> "queued", details |-> ""]

\* INSERT INTO messages ... 'queued'
EnqInsert(e) ==
    /\ enq[e].pc = "insert"
    /\ messages' = Append(messages, NewMessage(enq[e]))
    /\ enq' = [enq EXCEPT ![e].pc = "notify", ![e].message_id = Len(messages) + 1]
    /\ Hist(messages')
    /\ UNCHANGED <<start, audio_blobs, fetch, db_lock, db_ops>>
    /\ UNCHANGED <<now, clockEnd, devices, pairing_codes, conditions,
                   poll, ack, complete>>

\* notify_all taken to resume every waiting poll, whatever its condition
NotifiedAll(cond) == {p \in Polls : poll[p].pc = "waiting"}

\* notify_device: cond.notify_all() resumes every poll waiting on the
\* condition object; the signal itself is not kept
Notified(cond) == {p \in Polls : poll[p].pc = "waiting" /\ poll[p].cond = cond}

EnqNotify(e) ==
    /\ enq[e].pc = "notify"
    /\ conditions' = GetCondition(conditions, enq[e].device_id)
    /\ poll' = [p \in Polls |->
                  IF p \in Notified(conditions'[enq[e].device_id])
                  THEN [poll[p] EXCEPT !.pc = "sweep", !.timer = NoTime,
                                       !.woken = TRUE]
                  ELSE poll[p]]
    /\ enq' = [enq EXCEPT ![e] = [IdleEnq EXCEPT !.pc = "done",
                                     !.device_id = enq[e].device_id,
                                     !.message_id = enq[e].message_id,
                                     !.result = "200"]]
    /\ UNCHANGED <<start, audio_blobs, fetch, db_lock, db_ops>>
    /\ UNCHANGED <<now, clockEnd, devices, pairing_codes, messages,
                   ack, complete, lapsed>>

(* ------------------------------ ack_message ---------------------------- *)
IdleAck ==
    [pc |-> "idle", message_id |-> NoRow, token |-> "", status |-> "",
     details |-> "", at |-> NoTime, new_state |-> "", result |-> ""]

\* the expiry override without its exception for "played"
AckNewStateForced(status, expires_at, t) ==
    IF IsoToDt(expires_at) <= t THEN "expired" ELSE status

\* lines 1589-1600: the state an Ack with `status` stores, read at `t`
AckNewState(status, expires_at, t) ==
    IF IsoToDt(expires_at) <= t /\ status # "played" THEN "expired" ELSE status

\* the bearer token and the SELECT of the message (401 / 404)
AckMsg(a, mid, tok) ==
    /\ ack[a].pc = "idle"
    /\ LET res == IF tok = "" THEN "401"
                  ELSE IF mid \notin MsgIds THEN "404" ELSE ""
       IN  ack' = [ack EXCEPT ![a].pc = IF res = "" THEN "dev" ELSE "done",
                              ![a].message_id = mid, ![a].token = tok,
                              ![a].result = res]
    /\ UNCHANGED <<start, audio_blobs, fetch, db_lock, db_ops>>
    /\ UNCHANGED <<now, clockEnd, devices, pairing_codes, messages, conditions,
                   poll, enq, complete, lapsed>>

\* the SELECT of the owning device and the token check (401), then
\* now = utcnow() and new_state; req.status and req.details are read here
AckDev(a, status, details) ==
    /\ ack[a].pc = "dev"
    /\ LET m == messages[ack[a].message_id]
       IN  IF DeviceAuthOk(m.device_id, ack[a].token)
           THEN ack' = [ack EXCEPT ![a].pc = "write", ![a].status = status,
                            ![a].details = details, ![a].at = now,
                            ![a].new_state = AckNewState(status, m.expires_at, now)]
           ELSE ack' = [ack EXCEPT ![a].pc = "done", ![a].result = "401"]
    /\ UNCHANGED <<start, audio_blobs, fetch, db_lock, db_ops>>
    /\ UNCHANGED <<now, clockEnd, devices, pairing_codes, messages, conditions,
                   poll, enq, complete, lapsed>>

\* UPDATE messages SET state = ?, details = ? WHERE message_id = ?
AckWrite(a) ==
    /\ ack[a].pc = "write"
    /\ messages' = [messages EXCEPT ![ack[a].message_id].state = ack[a].new_state,
                                    ![ack[a].message_id].details = ack[a].details]
    /\ ack' = [ack EXCEPT ![a].pc = "done", ![a].token = "", ![a].at = NoTime,
                           ![a].details = "", ![a].result = "200"]
    /\ Hist(messages')
    /\ UNCHANGED <<start, audio_blobs, fetch, db_lock, db_ops>>
    /\ UNCHANGED <<now, clockEnd, devices, pairing_codes, conditions,
                   poll, enq, complete>>

(* --------------------------- pairing_complete -------------------------- *)
IdleComplete ==
    [pc |-> "idle", code |-> "", device_id |-> 0, at |-> NoTime, result |-> ""]

\* new_token(): the token issued with device d
TokenOf(d) == IF d = 1 THEN "t1" ELSE IF d = 2 THEN "t2" ELSE "t3"

\* the checks with the expiry tested ahead of used_at
CompleteCheckExpiryFirst(code, t) ==
    IF code \notin DOMAIN pairing_codes THEN "400-invalid"
    ELSE IF IsoToDt(pairing_codes[code].expires_at) <= t THEN "400-expired"
    ELSE IF pairing_codes[code].used_at # NoTime THEN "400-used"
    ELSE ""

\* lines 1348-1354: the outcome of the checks on the row read ("" passes)
CompleteCheck(code, t) ==
    IF code \notin DOMAIN pairing_codes THEN "400-invalid"
    ELSE IF pairing_codes[code].used_at # NoTime THEN "400-used"
    ELSE IF IsoToDt(pairing_codes[code].expires_at) <= t THEN "400-expired"
    ELSE ""

\* the SELECT of the code and the checks; then uuid4() (the request's own
\* number stands for the fresh id), new_token() and now = utcnow()
CompleteCode(c, code) ==
    /\ complete[c].pc = "idle"
    /\ LET res == CompleteCheck(code, now)
       IN  IF res # ""
           THEN complete' = [complete EXCEPT ![c].pc = "done", ![c].code = code,
                                             ![c].at = now, ![c].result = res]
           ELSE complete' = [complete EXCEPT ![c].pc = "device", ![c].code = code,
                                             ![c].device_id = c, ![c].at = now]
    /\ UNCHANGED <<start, audio_blobs, fetch, db_lock, db_ops>>
    /\ UNCHANGED <<now, clockEnd, devices, pairing_codes, messages, conditions,
                   poll, enq, ack, lapsed>>

\* INSERT INTO devices
CompleteDevice(c) ==
    /\ complete[c].pc = "device"
    /\ devices' = [d \in DOMAIN devices \cup {complete[c].device_id} |->
                     IF d = complete[c].device_id
                     THEN [device_token |-> TokenOf(d),
                           paired_at |-> DtToIso(complete[c].at),
                           last_seen_at |-> NoTime]
                     ELSE devices[d]]
    /\ complete' = [complete EXCEPT ![c].pc = "mark"]
    /\ UNCHANGED <<start, audio_blobs, fetch, db_lock, db_ops>>
    /\ UNCHANGED <<now, clockEnd, pairing_codes, messages, conditions,
                   poll, enq, ack, lapsed>>

\* UPDATE pairing_codes SET used_at = ?, claimed_device_id = ? WHERE code = ?
CompleteMark(c) ==
    /\ complete[c].pc = "mark"
    /\ pairing_codes' =
          [k \in DOMAIN pairing_codes |->
              IF k = complete[c].code
              THEN [pairing_codes[k] EXCEPT !.used_at = DtToIso(complete[c].at),
                                            !.claimed_device_id = complete[c].device_id]
              ELSE pairing_codes[k]]
    /\ complete' = [complete EXCEPT ![c].pc = "done", ![c].result = "200"]
    /\ UNCHANGED <<start, audio_blobs, fetch, db_lock, db_ops>>
    /\ UNCHANGED <<now, clockEnd, devices, messages, conditions,
                   poll, enq, ack, lapsed>>

(* ------------------------------- get_audio ----------------------------- *)
IdleFetch ==
    [pc |-> "idle", device_id |-> 0, token |-> "", blob_key |-> "", result |-> ""]

\* require_device_or_admin, its first test: the admin secret
AdminAuthOk(tok) == tok # "" /\ tok = ADMIN_TOKEN

\* require_device_or_admin: the admin secret passes at once; otherwise
\* require_device: the token, the SELECT of the device, 401
FetchAuth(f, d, tok, key) ==
    /\ fetch[f].pc = "idle"
    /\ fetch' = [fetch EXCEPT ![f] =
          [IdleFetch EXCEPT !.device_id = d, !.token = tok, !.blob_key = key,
                            !.pc = IF AdminAuthOk(tok) THEN "blob"
                                   ELSE IF DeviceAuthOk(d, tok) THEN "seen"
                                   ELSE "done",
                            !.result = IF AdminAuthOk(tok) \/ DeviceAuthOk(d, tok)
                                       THEN "" ELSE "401"]]
    /\ UNCHANGED <<start, audio_blobs, db_lock, db_ops>>
    /\ UNCHANGED <<now, clockEnd, devices, pairing_codes, messages, conditions,
                   poll, enq, ack, complete, lapsed>>

\* require_device: UPDATE devices SET last_seen_at
FetchSeen(f) ==
    /\ fetch[f].pc = "seen"
    /\ devices' = [devices EXCEPT ![fetch[f].device_id].last_seen_at = DtToIso(now)]
    /\ fetch' = [fetch EXCEPT ![f].pc = "blob"]
    /\ UNCHANGED <<start, audio_blobs, db_lock, db_ops>>
    /\ UNCHANGED <<now, clockEnd, pairing_codes, messages, conditions,
                   poll, enq, ack, complete, lapsed>>

\* the SELECT of the blob: 404 if there is no row, else the file
FetchBlob(f) ==
    /\ fetch[f].pc = "blob"
    /\ fetch' = [fetch EXCEPT ![f].pc = "done",
                              ![f].result = IF fetch[f].blob_key \in audio_blobs
                                            THEN "200" ELSE "404"]
    /\ UNCHANGED <<start, audio_blobs, db_lock, db_ops>>
    /\ UNCHANGED <<now, clockEnd, devices, pairing_codes, messages, conditions,
                   poll, enq, ack, complete, lapsed>>

(* ----------------------------- pairing_start --------------------------- *)
\* range(5): the draws of one request
MAX_DRAWS == 5

\* new_pairing_code: the six-digit strings the draws come from
PairingCodeValues == {"000001", "000002"}

IdleStart ==
    [pc |-> "idle", token |-> "", code |-> "", draws |-> 0, existing |-> FALSE,
     created |-> NoTime, result |-> "", drewFree |-> FALSE]

\* a pairing code that is unused and not expired at time t
ValidCode(code, t) ==
    /\ code \in DOMAIN pairing_codes
    /\ pairing_codes[code].used_at = NoTime
    /\ IsoToDt(pairing_codes[code].expires_at) > t

\* SELECT code FROM pairing_codes WHERE code = ? AND used_at IS NULL
\* AND expires_at > ?  (the columns are text)
Existing(code, t) ==
    /\ code \in DOMAIN pairing_codes
    /\ pairing_codes[code].used_at = NoTime
    /\ pairing_codes[code].expires_at > DtToIso(t)

\* the row written by the INSERT OR REPLACE, used_at carried over
StartRowKeepUse(s) ==
    [created_at |-> DtToIso(start[s].created),
     expires_at |-> DtToIso(start[s].created + Seconds(PAIRING_CODE_TTL_SECONDS)),
     used_at |-> IF start[s].code \in DOMAIN pairing_codes
                 THEN pairing_codes[start[s].code].used_at ELSE NoTime,
     claimed_device_id |-> 0]

\* the row written by the INSERT OR REPLACE
StartRow(s) ==
    [created_at |-> DtToIso(start[s].created),
     expires_at |-> DtToIso(start[s].created + Seconds(PAIRING_CODE_TTL_SECONDS)),
     used_at |-> NoTime, claimed_device_id |-> 0]

\* require_admin
StartAuth(s, tok) ==
    /\ start[s].pc = "idle"
    /\ start' = [start EXCEPT ![s] =
          [IdleStart EXCEPT !.token = tok,
                            !.pc = IF AdminAuthOk(tok) THEN "draw" ELSE "done",
                            !.result = IF AdminAuthOk(tok) THEN "" ELSE "401"]]
    /\ UNCHANGED <<audio_blobs, fetch, db_lock, db_ops>>
    /\ UNCHANGED <<now, clockEnd, devices, pairing_codes, messages, conditions,
                   poll, enq, ack, complete, lapsed>>

\* one pass of the loop: a draw and its SELECT; the loop ends on a value
\* that the SELECT does not find, or with the last pass; created = utcnow().
\* drewFree is history: some draw so far was not the value of a valid code.
StartDraw(s, code) ==
    /\ start[s].pc = "draw"
    /\ LET existing == Existing(code, now)
           last == ~existing \/ start[s].draws + 1 = MAX_DRAWS
       IN start' = [start EXCEPT ![s].code = code,
                                 ![s].draws = @ + 1,
                                 ![s].existing = existing,
                                 ![s].drewFree = @ \/ ~ValidCode(code, now),
                                 ![s].created = IF last THEN now ELSE NoTime,
                                 ![s].pc = IF last THEN "insert" ELSE "draw"]
    /\ UNCHANGED <<audio_blobs, fetch, db_lock, db_ops>>
    /\ UNCHANGED <<now, clockEnd, devices, pairing_codes, messages, conditions,
                   poll, enq, ack, complete, lapsed>>

\* INSERT OR REPLACE INTO pairing_codes, and the response
StartInsert(s) ==
    /\ start[s].pc = "insert"
    /\ pairing_codes' =
          [k \in DOMAIN pairing_codes \cup {start[s].code} |->
              IF k = start[s].code THEN StartRow(s) ELSE pairing_codes[k]]
    /\ start' = [start EXCEPT ![s].pc = "done", ![s].result = "200"]
    /\ UNCHANGED <<audio_blobs, fetch, db_lock, db_ops>>
    /\ UNCHANGED <<now, clockEnd, devices, messages, conditions,
                   poll, enq, ack, complete, lapsed>>

(* ------------------------- db_exec / db_fetchone ----------------------- *)
\* _db_lock = asyncio.Lock(): free, nobody queued
FreeLock == [locked |-> FALSE, waiters |-> << >>]

IdleOp == [pc |-> "idle"]

\* the store operations whose statement is running in asyncio.to_thread
InThread == {o \in StoreOps : db_ops[o].pc = "thread"}

\* Lock.acquire without its test of the lock
TakeAnyway(lock) == TRUE

\* asyncio.Lock.acquire, fast path: the lock is free and nobody is queued
CanTake(lock) == ~lock.locked /\ lock.waiters = << >>

\* `async with _db_lock`: take the lock, or queue on it
DbAcquire(o) ==
    /\ db_ops[o].pc = "idle"
    /\ IF CanTake(db_lock)
       THEN /\ db_lock' = [db_lock EXCEPT !.locked = TRUE]
            /\ db_ops' = [db_ops EXCEPT ![o].pc = "thread"]
       ELSE /\ db_lock' = [db_lock EXCEPT !.waiters = Append(@, o)]
            /\ db_ops' = [db_ops EXCEPT ![o].pc = "queued"]
    /\ UNCHANGED <<start, audio_blobs, fetch>>
    /\ UNCHANGED <<now, clockEnd, devices, pairing_codes, messages, conditions,
                   poll, enq, ack, complete, lapsed>>

\* asyncio.Lock: release() has woken the first queued task; it takes the lock
DbResume(o) ==
    /\ db_ops[o].pc = "queued"
    /\ ~db_lock.locked
    /\ db_lock.waiters # << >>
    /\ Head(db_lock.waiters) = o
    /\ db_lock' = [locked |-> TRUE, waiters |-> Tail(db_lock.waiters)]
    /\ db_ops' = [db_ops EXCEPT ![o].pc = "thread"]
    /\ UNCHANGED <<start, audio_blobs, fetch>>
    /\ UNCHANGED <<now, clockEnd, devices, pairing_codes, messages, conditions,
                   poll, enq, ack, complete, lapsed>>

\* _run: connect, execute (commit), close, in the worker thread; a
\* statement that raises ends the thread the same way
DbRun(o) ==
    /\ db_ops[o].pc = "thread"
    /\ db_ops' = [db_ops EXCEPT ![o].pc = "ran"]
    /\ UNCHANGED <<start, audio_blobs, fetch, db_lock>>
    /\ UNCHANGED <<now, clockEnd, devices, pairing_codes, messages, conditions,
                   poll, enq, ack, complete, lapsed>>

\* leaving `async with _db_lock` (result or exception): release()
DbRelease(o) ==
    /\ db_ops[o].pc = "ran"
    /\ db_lock' = [db_lock EXCEPT !.locked = FALSE]
    /\ db_ops' = [db_ops EXCEPT ![o].pc = "idle"]
    /\ UNCHANGED <<start, audio_blobs, fetch>>
    /\ UNCHANGED <<now, clockEnd, devices, pairing_codes, messages, conditions,
                   poll, enq, ack, complete, lapsed>>

(* ---------------------------- specifications --------------------------- *)
\* requests are numbered in the order they arrive
InOrder(f, i) == \A j \in DOMAIN f : j < i => f[j].pc # "idle"

\* the devices table after the devices in D were paired at time 0
PairedDevices(D) ==
    [d \in D |-> [device_token |-> TokenOf(d), paired_at |-> DtToIso(0),
                  last_seen_at |-> NoTime]]

NoRequests(n, idle) == [i \in 1..n |-> idle]

\* --- the queue: polls and enqueues on device 1, messages of one second
InitQueue ==
    /\ now = 0
    /\ clockEnd = MaxTime
    /\ devices = PairedDevices({1})
    /\ pairing_codes = << >>
    /\ messages = << >>
    /\ conditions = << >>
    /\ poll = NoRequests(QueuePolls, IdlePoll)
    /\ enq = NoRequests(QueueEnqs, IdleEnq)
    /\ ack = NoRequests(0, IdleAck)
    /\ complete = NoRequests(0, IdleComplete)
    /\ lapsed = {}
    /\ audio_blobs = {}
    /\ fetch = NoRequests(0, IdleFetch)
    /\ db_lock = FreeLock
    /\ db_ops = NoRequests(0, IdleOp)
    /\ start = NoRequests(0, IdleStart)

PollSteps ==
    \/ \E p \in Polls : PollSeen(p)
    \/ \E p \in Polls : PollSweep(p)
    \/ \E p \in Polls : PollSelect(p)
    \/ \E p \in Polls : PollDeliver(p)
    \/ \E p \in Polls : PollHead(p)
    \/ \E p \in Polls : PollDisc(p)
    \/ \E p \in Polls : PollTimeout(p)

EnqSteps ==
    \/ \E e \in Enqs : EnqInsert(e)
    \/ \E e \in Enqs : EnqNotify(e)

NextQueue ==
    \/ Tick
    \/ \E p \in Polls : InOrder(poll, p) /\ PollAuth(p, 1, "t1", 1)
    \/ PollSteps
    \/ \E e \in Enqs :
          InOrder(enq, e) /\ EnqDevice(e, ADMIN_TOKEN, 1, "tts", "hi", "", "normal", 1, NoTime)
    \/ EnqSteps

SpecQueue == InitQueue /\ [][NextQueue]_vars

\* --- the wait: polls that may lose their client, messages of the default TTL
InitWait ==
    /\ now = 0
    /\ clockEnd = MaxTime
    /\ devices = PairedDevices({1})
    /\ pairing_codes = << >>
    /\ messages = << >>
    /\ conditions = << >>
    /\ poll = NoRequests(WaitPolls, IdlePoll)
    /\ enq = NoRequests(WaitEnqs, IdleEnq)
    /\ ack = NoRequests(0, IdleAck)
    /\ complete = NoRequests(0, IdleComplete)
    /\ lapsed = {}
    /\ audio_blobs = {}
    /\ fetch = NoRequests(0, IdleFetch)
    /\ db_lock = FreeLock
    /\ db_ops = NoRequests(0, IdleOp)
    /\ start = NoRequests(0, IdleStart)

NextWait ==
    \/ Tick
    \/ \E p \in Polls, n \in {0, 1} : InOrder(poll, p) /\ PollAuth(p, 1, "t1", n)
    \/ PollSteps
    \/ \E p \in Polls : ClientGone(p)
    \/ \E e \in Enqs :
          InOrder(enq, e) /\ EnqDevice(e, ADMIN_TOKEN, 1, "tts", "hi", "", "normal", NoTime, NoTime)
    \/ EnqSteps

SpecWait == InitWait /\ [][NextWait]_vars

\* --- the acks: one poll, one message, acks with any status and token
InitAck ==
    /\ now = 0
    /\ clockEnd = MaxTime
    /\ devices = PairedDevices({1, 2})
    /\ pairing_codes = << >>
    /\ messages = << >>
    /\ conditions = << >>
    /\ poll = NoRequests(AckPolls, IdlePoll)
    /\ enq = NoRequests(AckEnqs, IdleEnq)
    /\ ack = NoRequests(AckAcks, IdleAck)
    /\ complete = NoRequests(0, IdleComplete)
    /\ lapsed = {}
    /\ audio_blobs = {}
    /\ fetch = NoRequests(0, IdleFetch)
    /\ db_lock = FreeLock
    /\ db_ops = NoRequests(0, IdleOp)
    /\ start = NoRequests(0, IdleStart)

AckStatus == {"played", "failed", "expired"}

NextAck ==
    \/ Tick
    \/ \E p \in Polls : InOrder(poll, p) /\ PollAuth(p, 1, "t1", 1)
    \/ PollSteps
    \/ \E e \in Enqs :
          InOrder(enq, e) /\ EnqDevice(e, ADMIN_TOKEN, 1, "tts", "hi", "", "normal", 1, NoTime)
    \/ EnqSteps
    \/ \E a \in Acks, tok \in {"t1", "t2"} : InOrder(ack, a) /\ AckMsg(a, 1, tok)
    \/ \E a \in Acks, st \in AckStatus : AckDev(a, st, "")
    \/ \E a \in Acks : AckWrite(a)

SpecAck == InitAck /\ [][NextAck]_vars

\* --- pairing: one code issued at time 0, redeemed around its expiry
IssuedCode(t) ==
    [created_at |-> DtToIso(t),
     expires_at |-> DtToIso(t + Seconds(PAIRING_CODE_TTL_SECONDS)),
     used_at |-> NoTime, claimed_device_id |-> 0]

InitPair ==
    /\ now = Seconds(PAIRING_CODE_TTL_SECONDS) - PairLead
    /\ clockEnd = Seconds(PAIRING_CODE_TTL_SECONDS) - PairLead + MaxTime
    /\ devices = << >>
    /\ pairing_codes = [k \in {"000001"} |-> IssuedCode(0)]
    /\ messages = << >>
    /\ conditions = << >>
    /\ poll = NoRequests(0, IdlePoll)
    /\ enq = NoRequests(0, IdleEnq)
    /\ ack = NoRequests(0, IdleAck)
    /\ complete = NoRequests(PairCompletes, IdleComplete)
    /\ lapsed = {}
    /\ audio_blobs = {}
    /\ fetch = NoRequests(0, IdleFetch)
    /\ db_lock = FreeLock
    /\ db_ops = NoRequests(0, IdleOp)
    /\ start = NoRequests(0, IdleStart)

NextPair ==
    \/ Tick
    \/ \E c \in Completes, code \in {"000001", "000002"} :
          InOrder(complete, c) /\ CompleteCode(c, code)
    \/ \E c \in Completes : CompleteDevice(c)
    \/ \E c \in Completes : CompleteMark(c)

SpecPair == InitPair /\ [][NextPair]_vars

\* --- pairing: codes issued while the first one is redeemed and expires
InitStart ==
    /\ now = Seconds(PAIRING_CODE_TTL_SECONDS) - PairLead
    /\ clockEnd = Seconds(PAIRING_CODE_TTL_SECONDS) - PairLead + MaxTime
    /\ devices = << >>
    /\ pairing_codes = [k \in {"000001"} |-> IssuedCode(0)]
    /\ messages = << >>
    /\ conditions = << >>
    /\ poll = NoRequests(0, IdlePoll)
    /\ enq = NoRequests(0, IdleEnq)
    /\ ack = NoRequests(0, IdleAck)
    /\ complete = NoRequests(StartCompletes, IdleComplete)
    /\ lapsed = {}
    /\ audio_blobs = {}
    /\ fetch = NoRequests(0, IdleFetch)
    /\ db_lock = FreeLock
    /\ db_ops = NoRequests(0, IdleOp)
    /\ start = NoRequests(StartCalls, IdleStart)

NextStart ==
    \/ Tick
    \/ \E s \in Starts, tok \in {ADMIN_TOKEN, "t1"} :
          InOrder(start, s) /\ StartAuth(s, tok)
    \/ \E s \in Starts, code \in PairingCodeValues : StartDraw(s, code)
    \/ \E s \in Starts : StartInsert(s)
    \/ \E c \in Completes, code \in PairingCodeValues :
          InOrder(complete, c) /\ CompleteCode(c, code)
    \/ \E c \in Completes : CompleteDevice(c)
    \/ \E c \in Completes : CompleteMark(c)

SpecStart == InitStart /\ [][NextStart]_vars

\* --- the hub: polls and enqueues on two devices, messages of one second
InitHub ==
    /\ now = 0
    /\ clockEnd = MaxTime
    /\ devices = PairedDevices({1, 2})
    /\ pairing_codes = << >>
    /\ messages = << >>
    /\ conditions = << >>
    /\ poll = NoRequests(HubPolls, IdlePoll)
    /\ enq = NoRequests(HubEnqs, IdleEnq)
    /\ ack = NoRequests(0, IdleAck)
    /\ complete = NoRequests(0, IdleComplete)
    /\ lapsed = {}
    /\ audio_blobs = {}
    /\ fetch = NoRequests(0, IdleFetch)
    /\ db_lock = FreeLock
    /\ db_ops = NoRequests(0, IdleOp)
    /\ start = NoRequests(0, IdleStart)

NextHub ==
    \/ Tick
    \/ \E p \in Polls, d \in {1, 2} :
          InOrder(poll, p) /\ PollAuth(p, d, TokenOf(d), 1)
    \/ PollSteps
    \/ \E e \in Enqs, d \in {1, 2} :
          InOrder(enq, e) /\ EnqDevice(e, ADMIN_TOKEN, d, "tts", "hi", "", "normal", 1, NoTime)
    \/ EnqSteps

SpecHub == InitHub /\ [][NextHub]_vars

\* --- the clamp: polls of an empty queue with timeouts below, inside and
\* above the limits
Timeouts == {-1, 0, 1, 2, 119, 120, 121, 500}

InitClamp ==
    /\ now = 0
    /\ clockEnd = MaxTime
    /\ devices = PairedDevices({1})
    /\ pairing_codes = << >>
    /\ messages = << >>
    /\ conditions = << >>
    /\ poll = NoRequests(ClampPolls, IdlePoll)
    /\ enq = NoRequests(0, IdleEnq)
    /\ ack = NoRequests(0, IdleAck)
    /\ complete = NoRequests(0, IdleComplete)
    /\ lapsed = {}
    /\ audio_blobs = {}
    /\ fetch = NoRequests(0, IdleFetch)
    /\ db_lock = FreeLock
    /\ db_ops = NoRequests(0, IdleOp)
    /\ start = NoRequests(0, IdleStart)

NextClamp ==
    \/ Tick
    \/ \E p \in Polls, n \in Timeouts : InOrder(poll, p) /\ PollAuth(p, 1, "t1", n)
    \/ \E p \in Polls : PollSeen(p)
    \/ \E p \in Polls : PollSweep(p)
    \/ \E p \in Polls : PollSelect(p)
    \/ \E p \in Polls : PollHead(p)
    \/ \E p \in Polls : PollDisc(p)
    \/ \E p \in Polls : PollTimeout(p)

SpecClamp == InitClamp /\ [][NextClamp]_vars

\* --- delivered messages: two polls, a message of one second and its Ack
InitKeep ==
    /\ now = 0
    /\ clockEnd = MaxTime
    /\ devices = PairedDevices({1})
    /\ pairing_codes = << >>
    /\ messages = << >>
    /\ conditions = << >>
    /\ poll = NoRequests(KeepPolls, IdlePoll)
    /\ enq = NoRequests(1, IdleEnq)
    /\ ack = NoRequests(KeepAcks, IdleAck)
    /\ complete = NoRequests(0, IdleComplete)
    /\ lapsed = {}
    /\ audio_blobs = {}
    /\ fetch = NoRequests(0, IdleFetch)
    /\ db_lock = FreeLock
    /\ db_ops = NoRequests(0, IdleOp)
    /\ start = NoRequests(0, IdleStart)

NextKeep ==
    \/ Tick
    \/ \E p \in Polls : InOrder(poll, p) /\ PollAuth(p, 1, "t1", 1)
    \/ PollSteps
    \/ \E e \in Enqs :
          InOrder(enq, e) /\ EnqDevice(e, ADMIN_TOKEN, 1, "tts", "hi", "", "normal", 1, NoTime)
    \/ EnqSteps
    \/ \E a \in Acks : InOrder(ack, a) /\ AckMsg(a, 1, "t1")
    \/ \E a \in Acks, st \in AckStatus : AckDev(a, st, "")
    \/ \E a \in Acks : AckWrite(a)

SpecKeep == InitKeep /\ [][NextKeep]_vars

\* --- the store: calls of db_exec / db_fetchone / db_fetchall, again and again
InitStore ==
    /\ now = 0
    /\ clockEnd = 0
    /\ devices = << >>
    /\ pairing_codes = << >>
    /\ messages = << >>
    /\ conditions = << >>
    /\ poll = NoRequests(0, IdlePoll)
    /\ enq = NoRequests(0, IdleEnq)
    /\ ack = NoRequests(0, IdleAck)
    /\ complete = NoRequests(0, IdleComplete)
    /\ lapsed = {}
    /\ audio_blobs = {}
    /\ fetch = NoRequests(0, IdleFetch)
    /\ db_lock = FreeLock
    /\ db_ops = NoRequests(StoreCalls, IdleOp)
    /\ start = NoRequests(0, IdleStart)

NextStore ==
    \/ \E o \in StoreOps : DbAcquire(o)
    \/ \E o \in StoreOps : DbResume(o)
    \/ \E o \in StoreOps : DbRun(o)
    \/ \E o \in StoreOps : DbRelease(o)

SpecStore == InitStore /\ [][NextStore]_vars

\* --- authentication: a poll, acks and an audio fetch with any bearer token
BearerTokens == {"", "t1", "t2", ADMIN_TOKEN}

InitAuth ==
    /\ now = 0
    /\ clockEnd = AuthTime
    /\ devices = PairedDevices({1, 2})
    /\ pairing_codes = << >>
    /\ messages = << >>
    /\ conditions = << >>
    /\ poll = NoRequests(1, IdlePoll)
    /\ enq = NoRequests(1, IdleEnq)
    /\ ack = NoRequests(AuthAcks, IdleAck)
    /\ complete = NoRequests(0, IdleComplete)
    /\ lapsed = {}
    /\ audio_blobs = {"b1"}
    /\ fetch = NoRequests(1, IdleFetch)
    /\ db_lock = FreeLock
    /\ db_ops = NoRequests(0, IdleOp)
    /\ start = NoRequests(0, IdleStart)

NextAuth ==
    \/ Tick
    \/ \E p \in Polls, d \in {1, 3}, tok \in BearerTokens :
          InOrder(poll, p) /\ PollAuth(p, d, tok, 1)
    \/ PollSteps
    \/ \E p \in Polls : PollSeenFails(p)
    \/ \E e \in Enqs :
          InOrder(enq, e)
          /\ EnqDevice(e, ADMIN_TOKEN, 1, "tts", "hi", "", "normal", NoTime, NoTime)
    \/ EnqSteps
    \/ \E a \in Acks, mid \in {1, 2}, tok \in BearerTokens :
          InOrder(ack, a) /\ AckMsg(a, mid, tok)
    \/ \E a \in Acks, st \in {"played", "failed"} : AckDev(a, st, "d")
    \/ \E a \in Acks : AckWrite(a)
    \/ \E f \in Fetches, d \in {1, 3}, tok \in BearerTokens, key \in {"b1", "b2"} :
          InOrder(fetch, f) /\ FetchAuth(f, d, tok, key)
    \/ \E f \in Fetches : FetchSeen(f)
    \/ \E f \in Fetches : FetchBlob(f)

SpecAuth == InitAuth /\ [][NextAuth]_vars

\* --- validation: enqueue requests with any body
Payloads ==
    {<<"tts", "hi", "">>, <<"tts", "", "">>, <<"tts", " ", "">>,
     <<"tts", "hi", "b2">>, <<"audio", "", "b1">>, <<"audio", "hi", "b1">>,
     <<"audio", "", "">>, <<"audio", "hi", "">>, <<"audio", "", "b2">>}

\* <<ttlSeconds, expiresAt>>: NoTime is an absent field
Expiries ==
    {<<NoTime, NoTime>>, <<0, NoTime>>, <<1, NoTime>>,
     <<MAX_TTL_SECONDS, NoTime>>, <<MAX_TTL_SECONDS + 1, NoTime>>}
    \cup {<<NoTime, DtToIso(t)>> : t \in 0..MaxTime + 1}
    \cup {<<0, DtToIso(MaxTime + 1)>>}
    \cup {<<ttl, DtToIso(Seconds(MAX_TTL_SECONDS) + MaxTime + 1)>> : ttl \in {NoTime, 1}}

InitCheck ==
    /\ now = 0
    /\ clockEnd = MaxTime
    /\ devices = PairedDevices({1})
    /\ pairing_codes = << >>
    /\ messages = << >>
    /\ conditions = << >>
    /\ poll = NoRequests(0, IdlePoll)
    /\ enq = NoRequests(CheckEnqs, IdleEnq)
    /\ ack = NoRequests(0, IdleAck)
    /\ complete = NoRequests(0, IdleComplete)
    /\ lapsed = {}
    /\ audio_blobs = {"b1"}
    /\ fetch = NoRequests(0, IdleFetch)
    /\ db_lock = FreeLock
    /\ db_ops = NoRequests(0, IdleOp)
    /\ start = NoRequests(0, IdleStart)

NextCheck ==
    \/ Tick
    \/ \E e \in Enqs, tok \in {ADMIN_TOKEN, "t1"}, d \in {1, 2},
          b \in Payloads, x \in Expiries :
          InOrder(enq, e)
          /\ EnqDevice(e, tok, d, b[1], b[2], b[3], "normal", x[1], x[2])
    \/ \E e \in Enqs : EnqBlob(e)
    \/ EnqSteps

SpecCheck == InitCheck /\ [][NextCheck]_vars

\* --- priorities: messages of either priority and any expiry, and a poll
Priorities == {"normal", "urgent"}

InitPrio ==
    /\ now = 0
    /\ clockEnd = MaxTime
    /\ devices = PairedDevices({1})
    /\ pairing_codes = << >>
    /\ messages = << >>
    /\ conditions = << >>
    /\ poll = NoRequests(1, IdlePoll)
    /\ enq = NoRequests(PrioEnqs, IdleEnq)
    /\ ack = NoRequests(0, IdleAck)
    /\ complete = NoRequests(0, IdleComplete)
    /\ lapsed = {}
    /\ audio_blobs = {}
    /\ fetch = NoRequests(0, IdleFetch)
    /\ db_lock = FreeLock
    /\ db_ops = NoRequests(0, IdleOp)
    /\ start = NoRequests(0, IdleStart)

NextPrio ==
    \/ Tick
    \/ \E p \in Polls : InOrder(poll, p) /\ PollAuth(p, 1, "t1", 1)
    \/ PollSteps
    \/ \E e \in Enqs, pr \in Priorities,
          x \in {<<1, NoTime>>} \cup {<<NoTime, DtToIso(t)>> : t \in 0..MaxTime + 1} :
          InOrder(enq, e)
          /\ EnqDevice(e, ADMIN_TOKEN, 1, "tts", "hi", "", pr, x[1], x[2])
    \/ EnqSteps

SpecPrio == InitPrio /\ [][NextPrio]_vars

(* ------------------------------- claims -------------------------------- *)
Terminal == {"played", "failed", "expired"}

\* the polls whose response carried message m
Handed(m) == {p \in Polls : poll[p].result = "200" /\ poll[p].row = m}

\* C1: exactly-once hand-off: under every interleaving of polls on a device
\* a message is carried by at most one poll response.
C1_ExactlyOnce == \A m \in MsgIds : Cardinality(Handed(m)) <= 1

\* C2: single redemption: of the completion requests on one pairing code at
\* most one succeeds, and at most one device exists that they created.
C2_SingleRedemption ==
    \A k \in DOMAIN pairing_codes :
        /\ Cardinality({c \in Completes : complete[c].code = k
                                          /\ complete[c].result = "200"}) <= 1
        /\ Cardinality({c \in Completes : complete[c].code = k
                                          /\ c \in DOMAIN devices}) <= 1

\* a poll response carries no message that was queued at or after its expires_at
C3_NotReturned == \A p \in Polls : poll[p].result = "200" => poll[p].row \notin lapsed

\* the sweep of a poll leaves expired every message of its device that is
\* queued with expires_at <= now
C3_SweptByNextPoll ==
    \A p \in Polls :
        (poll[p].pc = "sweep" /\ poll'[p].pc = "select") =>
            \A m \in MsgIds :
                (/\ messages[m].device_id = poll[p].device_id
                 /\ messages[m].state = "queued"
                 /\ IsoToDt(messages[m].expires_at) <= now)
                => messages'[m].state = "expired"

\* C3: a message that is still queued when its expires_at is reached is
\* never carried by a poll response, and the sweep of the next poll of its
\* device leaves it expired.
C3_ExpiredNeverReturned == [](C3_NotReturned) /\ [][C3_SweptByNextPoll]_vars

\* C4: per-device FIFO: when B has been handed out, no message A of the same
\* device with an earlier created_at is still queued.
C4_Fifo ==
    \A a \in MsgIds, b \in MsgIds :
        (/\ messages[a].device_id = messages[b].device_id
         /\ IsoToDt(messages[a].created_at) < IsoToDt(messages[b].created_at)
         /\ Handed(b) # {})
        => messages[a].state # "queued"

\* the messages of device d whose enqueue has inserted the row and fired the
\* signal, and that no poll has claimed
SignalledUnclaimed(d) ==
    {m \in MsgIds :
        /\ messages[m].device_id = d
        /\ messages[m].state = "queued"
        /\ \E e \in Enqs : enq[e].pc = "done" /\ enq[e].message_id = m}

\* C5: wake on enqueue: a poll is not left suspended in its wait, before its
\* deadline, while a message of its device that was inserted and signalled
\* after the poll's empty check sits unclaimed in the queue.
C5_WakeOnEnqueue ==
    \A p \in Polls :
        (poll[p].pc = "waiting" /\ now < poll[p].deadline)
        => SignalledUnclaimed(poll[p].device_id) = {}

\* C6 as claimed: no step changes the state of a message that is played,
\* failed or expired.
C6_TerminalFinal ==
    [][\A m \in MsgIds :
          messages[m].state \in Terminal => messages'[m].state = messages[m].state]_vars

\* C6 as amended: a step that changes the state of a played, failed or
\* expired message is the UPDATE of an Ack for that message; no poll, sweep
\* or enqueue changes it.
C6_TerminalFinalButAck ==
    [][\A m \in MsgIds :
          (messages[m].state \in Terminal /\ messages'[m].state # messages[m].state)
          => \E a \in Acks : /\ ack[a].pc = "write" /\ ack'[a].pc = "done"
                             /\ ack[a].message_id = m
                             /\ messages'[m].state = ack[a].new_state]_vars

\* C6, its case: two Acks of the same message have both been stored, with
\* different states
C6_Witness ==
    \E a \in Acks, b \in Acks :
        /\ ack[a].result = "200" /\ ack[b].result = "200"
        /\ ack[a].message_id = ack[b].message_id
        /\ ack[a].new_state # ack[b].new_state

\* C7: the Ack state mapping: the UPDATE of an authorized Ack with status s
\* stores, and the response returns, played if s = played, expired if
\* s # played and expires_at <= the Ack's now, and s otherwise.
C7_AckMapping ==
    [][\A a \in Acks :
          (ack[a].pc = "write" /\ ack'[a].pc = "done") =>
              LET m == ack[a].message_id
                  s == ack[a].status
                  want == IF s = "played" THEN "played"
                          ELSE IF IsoToDt(messages[m].expires_at) <= ack[a].at
                               THEN "expired"
                          ELSE s
              IN  /\ messages'[m].state = want
                  /\ ack'[a].new_state = want]_vars

\* C7, its case: an Ack with status failed that came after expires_at was
\* stored as expired
C7_Witness ==
    \E a \in Acks :
        /\ ack[a].result = "200" /\ ack[a].status = "failed"
        /\ ack[a].new_state = "expired"
        /\ messages[ack[a].message_id].state = "expired"

\* C8: a poll is never suspended in its wait past its deadline.
C8_NotPastDeadline ==
    \A p \in Polls : poll[p].pc = "waiting" => now <= poll[p].deadline

\* C9: no early empty result: a poll whose client is still connected does
\* not answer 204 before its deadline, woken in between or not.
C9_NoEarlyEmpty ==
    \A p \in Polls :
        (poll[p].result \in {"204-deadline", "204-timeout", "204-disconnected"}
         /\ poll[p].gone = "")
        => now >= poll[p].deadline

\* C9, its case: a connected poll was woken, found nothing and answered 204
C9_Witness ==
    \E p \in Polls :
        /\ poll[p].result \in {"204-deadline", "204-timeout"}
        /\ poll[p].gone = ""
        /\ poll[p].woken

\* C10: a poll whose client disconnected while it was suspended in the wait,
\* ahead of its deadline, answers through the disconnection check, not by
\* waiting out its timeout.
C10_DisconnectObserved ==
    \A p \in Polls :
        (poll[p].gone = "waiting" /\ poll[p].pc = "done")
        => poll[p].result = "204-disconnected"

\* the device that owns message m
Owner(m) == messages[m].device_id

\* C11: Ack authorization: an Ack that is answered 404 named no stored
\* message, one that is answered 401 carried no token or a token other than
\* the device_token of the message's owner, and both leave every message as
\* it was; an Ack step that changes a message's state or details is the
\* UPDATE of an Ack whose token is the owner's device_token.
C11_AckAuthorized ==
    [][/\ \A a \in Acks :
            (ack[a].pc # "done" /\ ack'[a].pc = "done") =>
                LET r == ack'[a]
                IN  /\ r.result = "404" =>
                          r.message_id \notin MsgIds /\ messages' = messages
                    /\ r.result = "401" =>
                          /\ \/ r.token = ""
                             \/ /\ r.message_id \in MsgIds
                                /\ r.token # devices[Owner(r.message_id)].device_token
                          /\ messages' = messages
                    /\ r.result = "200" =>
                          ack[a].token = devices[Owner(r.message_id)].device_token
       /\ \A m \in MsgIds :
            (/\ ack' # ack
             /\ \/ messages'[m].state # messages[m].state
                \/ messages'[m].details # messages[m].details)
            => \E a \in Acks :
                  /\ ack[a].pc = "write" /\ ack'[a].pc = "done"
                  /\ ack[a].message_id = m
                  /\ ack[a].token = devices[Owner(m)].device_token]_vars

\* C11, its case: an Ack with the admin secret on a stored message was
\* answered 401 and the message carries no details
C11_Witness ==
    \E a \in Acks :
        /\ ack[a].result = "401" /\ ack[a].token = ADMIN_TOKEN
        /\ ack[a].message_id \in MsgIds
        /\ messages[ack[a].message_id].details = ""

\* the token is the stored device_token of an existing device d
OwnToken(d, tok) ==
    tok # "" /\ d \in DOMAIN devices /\ tok = devices[d].device_token

\* C12: device authentication: a poll on device D goes on exactly when D
\* exists and the bearer token is D's device_token, and is answered 401
\* otherwise, changing no message and no device row; the audio fetch (the
\* combined check) goes on exactly when the token is the admin secret or D's
\* own token, and is answered 401 otherwise.
C12_DeviceAuth ==
    [][/\ \A p \in Polls :
            (poll[p].pc = "idle" /\ poll'[p].pc # "idle") =>
                LET r == poll'[p]
                IN  IF OwnToken(r.device_id, r.token)
                    THEN r.pc = "seen" /\ r.result = ""
                    ELSE /\ r.pc = "done" /\ r.result = "401"
                         /\ messages' = messages /\ devices' = devices
       /\ \A f \in Fetches :
            (fetch[f].pc = "idle" /\ fetch'[f].pc # "idle") =>
                LET r == fetch'[f]
                IN  IF r.token = ADMIN_TOKEN THEN r.pc = "blob" /\ r.result = ""
                    ELSE IF OwnToken(r.device_id, r.token)
                    THEN r.pc = "seen" /\ r.result = ""
                    ELSE /\ r.pc = "done" /\ r.result = "401"
                         /\ messages' = messages /\ devices' = devices]_vars

\* C12, its case: a poll on device 1 with the token of device 2 was answered
\* 401 with last_seen_at untouched, and a fetch with the admin secret went
\* through
C12_Witness ==
    /\ \E p \in Polls : /\ poll[p].result = "401" /\ poll[p].device_id = 1
                        /\ poll[p].token = "t2"
    /\ devices[1].last_seen_at = NoTime
    /\ \E f \in Fetches : fetch[f].token = ADMIN_TOKEN /\ fetch[f].result = "200"

\* the codes of the checks of pairing_complete, by the claim's names
InvalidCode == "400-invalid"
CodeAlreadyUsed == "400-used"
CodeExpired == "400-expired"

\* C13: CompletePairing error outcomes: a completion fails with InvalidCode
\* when the code has no record, CodeAlreadyUsed when used_at is set (expired
\* or not), CodeExpired when expires_at <= now, and passes otherwise; a
\* failing completion creates no device and leaves the code's record as it was.
C13_CompleteErrors ==
    [][\A c \in Completes :
          (complete[c].pc = "idle" /\ complete'[c].pc # "idle") =>
              LET k == complete'[c].code
                  want == IF k \notin DOMAIN pairing_codes THEN InvalidCode
                          ELSE IF pairing_codes[k].used_at # NoTime
                          THEN CodeAlreadyUsed
                          ELSE IF IsoToDt(pairing_codes[k].expires_at) <= now
                          THEN CodeExpired
                          ELSE ""
              IN  /\ complete'[c].result = want
                  /\ want # "" => /\ complete'[c].pc = "done"
                                  /\ devices' = devices
                                  /\ pairing_codes' = pairing_codes]_vars

\* C13, its case: a completion on a code that was used and had expired was
\* answered CodeAlreadyUsed
C13_Witness ==
    \E c \in Completes :
        /\ complete[c].result = CodeAlreadyUsed
        /\ complete[c].code \in DOMAIN pairing_codes
        /\ complete[c].at >= IsoToDt(pairing_codes[complete[c].code].expires_at)

\* the outcome the claim gives a request r of the admin, "" for none of
\* its failures
EnqueueFailure(r) ==
    LET ttl == IF r.ttlSeconds # NoTime THEN r.ttlSeconds
               ELSE DEFAULT_MESSAGE_TTL_SECONDS
    IN  IF r.device_id \notin DOMAIN devices THEN "404"
        ELSE IF r.type = "tts" /\ r.text \in {"", " "} THEN "400-text"
        ELSE IF r.type = "audio" /\ r.audioBlobKey = "" THEN "400-audio-key"
        ELSE IF r.type = "audio" /\ r.audioBlobKey \notin audio_blobs THEN "400-blob"
        ELSE IF r.expiresAt = NoTime /\ ~(0 < ttl /\ ttl <= 86400) THEN "400-ttl"
        ELSE IF r.expiresAt # NoTime /\ IsoToDt(r.expiresAt) <= r.created
        THEN "400-expiry"
        ELSE ""

C15_ExpiresAfterCreated ==
    /\ [](\A m \in MsgIds :
             IsoToDt(messages[m].expires_at) > IsoToDt(messages[m].created_at))
    /\ [][Len(messages') > Len(messages) =>
             /\ Len(messages') = Len(messages) + 1
             /\ messages'[Len(messages')].state = "queued"]_vars

\* C15, its case: a message was stored whose expiresAt, given by the
\* request, is one tick after its creation
C15_Witness ==
    \E m \in MsgIds :
        IsoToDt(messages[m].expires_at) = IsoToDt(messages[m].created_at) + 1

\* C16: single-writer discipline: at most one store operation is inside
\* `async with _db_lock` (its statement running in the thread, or just
\* finished) at any time.
C16_SingleWriter ==
    Cardinality({o \in StoreOps : db_ops[o].pc \in {"thread", "ran"}}) <= 1

\* C16, its case: one statement is running while two more operations are
\* queued on the lock
C16_Witness ==
    /\ Cardinality(InThread) = 1
    /\ Len(db_lock.waiters) >= 2

\* the table with the priority of each message replaced by f's
Reprioritised(f) == [i \in MsgIds |-> [messages[i] EXCEPT !.priority = f[i]]]

\* C17: priority is inert: for every other choice of the priorities of the
\* stored messages, the SELECT of a poll, at any instant, returns the same
\* message.
C17_PriorityInert ==
    \A f \in [MsgIds -> Priorities] :
        \A d \in DOMAIN devices :
            SelectFirstIn(Reprioritised(f), d, now) = SelectFirstIn(messages, d, now)

\* C17, its case: a poll handed out a normal message while an urgent one,
\* enqueued after it, was queued
C17_Witness ==
    \E a \in MsgIds, b \in MsgIds :
        /\ messages[a].priority = "normal" /\ Handed(a) # {}
        /\ messages[b].priority = "urgent" /\ messages[b].state = "queued"
        /\ a < b

\* C18: last_seen_at is updated on every authenticated device request: a
\* poll or an audio fetch that got past require_device, and an Ack answered
\* 200, leave the device with a last_seen_at.
C18_LastSeenUpdated ==
    /\ \A p \in Polls :
          (poll[p].pc \notin {"idle", "seen", "done"} \/ poll[p].result = "200")
          => devices[poll[p].device_id].last_seen_at # NoTime
    /\ \A f \in Fetches :
          (fetch[f].pc = "blob" /\ fetch[f].token # ADMIN_TOKEN)
          => devices[fetch[f].device_id].last_seen_at # NoTime
    /\ \A a \in Acks :
          ack[a].result = "200"
          => devices[Owner(ack[a].message_id)].last_seen_at # NoTime

\* C19: the last_seen_at update is best-effort: no poll ends with a server
\* error because that update failed.
C19_BestEffort == \A p \in Polls : poll[p].result # "500"

\* C20: state at hand-off: the UPDATE of a poll that returns a message finds
\* the message queued and leaves it delivered.
C20_DeliveredByReturner ==
    [][\A p \in Polls :
          (poll[p].pc = "deliver" /\ poll'[p].result = "200") =>
              /\ messages[poll[p].row].state = "queued"
              /\ messages'[poll[p].row].state = "delivered"]_vars

\* the pairing codes that a stored device was created from
Redeemed == {complete[c].code : c \in {x \in Completes : x \in DOMAIN devices}}

\* C21: the two writes of a completion are one atomic change: in no state
\* does a device row exist while the pairing code that created it still has
\* no used_at, and used_at and claimed_device_id are both unset or both set.
C21_AtomicCompletion ==
    /\ \A k \in Redeemed : pairing_codes[k].used_at # NoTime
    /\ \A k \in DOMAIN pairing_codes :
          pairing_codes[k].used_at = NoTime <=> pairing_codes[k].claimed_device_id = 0

\* C22: used_at is set exactly once: once a pairing code's used_at is set, no
\* later completion and no later issue of the same code value overwrites it or
\* clears it, and claimed_device_id keeps naming the first device.
C22_UsedOnce ==
    [][\A k \in DOMAIN pairing_codes :
          pairing_codes[k].used_at # NoTime
          => /\ k \in DOMAIN pairing_codes'
             /\ pairing_codes'[k].used_at = pairing_codes[k].used_at
             /\ pairing_codes'[k].claimed_device_id
                   = pairing_codes[k].claimed_device_id]_vars

\* C28: an issue of a pairing code makes at most MAX_DRAWS draws, ends its
\* loop at the first draw whose value its SELECT does not find among the
\* unused rows with a later expires_at (or at the last draw), and persists
\* that value with used_at and claimed_device_id unset and expires_at =
\* created_at + the pairing-code lifetime, leaving every other row alone.
C28_BoundedDraws ==
    [][\A s \in Starts :
          /\ start'[s].draws <= MAX_DRAWS
          /\ (start[s].pc = "draw" /\ start'[s] # start[s])
             => LET k == start'[s].code
                    found == /\ k \in DOMAIN pairing_codes
                             /\ pairing_codes[k].used_at = NoTime
                             /\ pairing_codes[k].expires_at > DtToIso(now)
                IN /\ start'[s].draws = start[s].draws + 1
                   /\ start'[s].pc = IF ~found \/ start'[s].draws = MAX_DRAWS
                                     THEN "insert" ELSE "draw"
                   /\ start'[s].pc = "insert" => start'[s].created = now
                   /\ pairing_codes' = pairing_codes
          /\ (start[s].pc = "insert" /\ start'[s].pc = "done")
             => LET k == start[s].code
                IN /\ start'[s].result = "200" /\ start'[s].code = k
                   /\ DOMAIN pairing_codes' = DOMAIN pairing_codes \cup {k}
                   /\ pairing_codes'[k].used_at = NoTime
                   /\ pairing_codes'[k].claimed_device_id = 0
                   /\ IsoToDt(pairing_codes'[k].created_at) = start[s].created
                   /\ IsoToDt(pairing_codes'[k].expires_at)
                         = IsoToDt(pairing_codes'[k].created_at)
                           + Seconds(PAIRING_CODE_TTL_SECONDS)
                   /\ \A j \in DOMAIN pairing_codes \ {k} :
                         pairing_codes'[j] = pairing_codes[j]]_vars

\* an issue that drew again after a value in use and persisted the next one,
\* and an issue whose five draws were all in use and that persisted the last
C28_Witness ==
    /\ \E s \in Starts :
          /\ start[s].result = "200" /\ start[s].draws > 1 /\ ~start[s].existing
          /\ pairing_codes[start[s].code] = StartRow(s)
    /\ \E s \in Starts :
          /\ start[s].result = "200" /\ start[s].draws = MAX_DRAWS
          /\ start[s].existing
          /\ pairing_codes[start[s].code] = StartRow(s)

\* C28 as stated: when one of the draws of an issue is not the value of a
\* valid code, the value it persists is not the value of a valid code.
C28_FreeWhenPersisted ==
    [][\A s \in Starts :
          (start[s].pc = "insert" /\ start'[s].pc = "done" /\ start[s].drewFree)
          => ~ValidCode(start[s].code, now)]_vars

\* every poll that holds a condition object holds the one stored for its device
HoldsStored ==
    \A p \in Polls :
        poll[p].cond # 0 => /\ poll[p].device_id \in DOMAIN conditions
                            /\ poll[p].cond = conditions[poll[p].device_id]

\* C29: one wait primitive per device: every waiter and every signaller of a
\* device gets the same condition object; an entry is made only by the first
\* poll or signal of its device, and is never removed or replaced.
C29_OneCondition ==
    [][/\ HoldsStored /\ HoldsStored'
       /\ \A d \in DOMAIN conditions :
             d \in DOMAIN conditions' /\ conditions'[d] = conditions[d]
       /\ \A d \in DOMAIN conditions' \ DOMAIN conditions :
             /\ \A k \in DOMAIN conditions : conditions[k] # conditions'[d]
             /\ \/ \E p \in Polls : /\ poll[p].pc = "head" /\ poll[p].device_id = d
                                    /\ poll'[p].cond = conditions'[d]
                \/ \E e \in Enqs : /\ enq[e].pc = "notify" /\ enq[e].device_id = d
                                   /\ enq'[e].pc = "done"
       /\ \A e \in Enqs :
             (enq[e].pc = "notify" /\ enq'[e].pc = "done")
             => \A p \in Polls :
                   (poll[p].pc = "waiting" /\ poll'[p].pc = "sweep")
                   => poll[p].cond = conditions'[enq[e].device_id]]_vars

\* two polls of one device hold the object through which an enqueue for the
\* device has signalled
C29_Witness ==
    \E p, q \in Polls, e \in Enqs :
        /\ p # q /\ poll[p].device_id = poll[q].device_id
        /\ poll[p].cond # 0 /\ poll[p].cond = poll[q].cond
        /\ enq[e].result = "200" /\ enq[e].device_id = poll[p].device_id
        /\ poll[p].woken /\ poll[q].woken
        /\ conditions[poll[p].device_id] = poll[p].cond

\* the step in which enqueue e signals its device
Signals(e) == enq[e].pc = "notify" /\ enq'[e].pc = "done"

\* C26: a signal for a device resumes every poll then waiting on that device
\* and no other poll; it is not kept: a poll leaves its wait only in the step
\* of a signal for its device, or when its own timer is due.
C26_SignalSemantics ==
    [][/\ \A e \in Enqs :
             Signals(e)
             => \A p \in Polls :
                   IF p \in Waiters(enq[e].device_id)
                   THEN poll'[p].pc = "sweep" /\ poll'[p].woken
                   ELSE poll'[p] = poll[p]
       /\ \A p \in Polls :
             (poll[p].pc = "waiting" /\ poll'[p].pc # "waiting")
             => \/ \E e \in Enqs : Signals(e) /\ enq[e].device_id = poll[p].device_id
                \/ TimerDue(p) /\ poll'[p].result = "204-timeout"]_vars

\* a signal has resumed a poll of its device while a poll of the other device
\* waits on
C26_Witness ==
    \E p, q \in Polls, e \in Enqs :
        /\ enq[e].result = "200" /\ enq[e].device_id = poll[p].device_id
        /\ poll[p].woken /\ poll[p].pc = "sweep"
        /\ poll[q].device_id # poll[p].device_id
        /\ poll[q].pc = "waiting" /\ ~poll[q].woken

\* C23: a woken poll re-reads the store, the sweep and then the SELECT,
\* before it responds; when the re-check finds nothing it goes back to wait
\* for what is left to the deadline it set on entry, which no step changes.
C23_RecheckAfterWake ==
    [][\A p \in Polls :
          /\ poll[p].deadline # NoTime => poll'[p].deadline = poll[p].deadline
          /\ (poll[p].pc = "waiting" /\ poll'[p].pc # "waiting")
             => \/ poll'[p].pc = "sweep" /\ poll'[p].woken
                \/ poll'[p].pc = "done" /\ poll'[p].result = "204-timeout"
          /\ (poll[p].woken /\ poll[p].pc = "sweep" /\ poll'[p].pc # "sweep")
             => /\ poll'[p].pc = "select"
                /\ \A i \in SweepMatches(poll[p].device_id, now) :
                      messages'[i].state = "expired"
          /\ (poll[p].woken /\ poll[p].pc = "select" /\ poll'[p].pc # "select")
             => IF SelectFirst(poll[p].device_id, now) = {}
                THEN poll'[p].pc = "head"
                ELSE /\ poll'[p].pc = "deliver"
                     /\ poll'[p].row \in SelectFirst(poll[p].device_id, now)
          /\ (poll[p].woken /\ poll[p].pc = "head" /\ poll'[p].pc # "head")
             => IF poll[p].deadline - now <= 0
                THEN poll'[p].pc = "done" /\ poll'[p].result = "204-deadline"
                ELSE /\ poll'[p].pc = "disc"
                     /\ poll'[p].remaining = poll[p].deadline - now]_vars

\* a poll set its deadline, was woken later, found nothing in its re-check
\* and waits again with a timer that ends at that deadline
C23_Witness ==
    \E p \in Polls :
        /\ poll[p].woken /\ poll[p].pc = "waiting" /\ poll[p].row = NoRow
        /\ poll[p].deadline > now /\ poll[p].timer = poll[p].deadline
        /\ poll[p].deadline < now + Seconds(ClampTimeout(poll[p].timeout))

\* the step in which poll p runs the sweep of its lookup
Sweeps(p) == poll[p].pc = "sweep" /\ poll'[p].pc = "select"

\* C24: global reclamation: the lookup of any poll marks expired the queued
\* messages whose expires_at has passed, those of other devices included.
C24_GlobalReclamation ==
    [][\A p \in Polls :
          Sweeps(p)
          => \A m \in MsgIds :
                (/\ messages[m].device_id # poll[p].device_id
                 /\ messages[m].state = "queued"
                 /\ IsoToDt(messages[m].expires_at) <= now)
                => messages'[m].state = "expired"]_vars

\* C25: the sweep of a poll turns to expired exactly the messages of its
\* device that are queued with expires_at <= now, and changes nothing else:
\* no other device's message, no later-expiring or non-queued message, no
\* other field.
C25_SweepFrame ==
    [][\A p \in Polls :
          Sweeps(p)
          => /\ Len(messages') = Len(messages)
             /\ \A m \in MsgIds :
                   messages'[m] =
                      IF /\ messages[m].device_id = poll[p].device_id
                         /\ messages[m].state = "queued"
                         /\ IsoToDt(messages[m].expires_at) <= now
                      THEN [messages[m] EXCEPT !.state = "expired"]
                      ELSE messages[m]]_vars

\* C27: an enqueue signals only once its row is stored, so when the re-check
\* of a woken poll finds nothing, every signalled message of its device has
\* been claimed by a poll or has reached its expires_at.
C27_InsertBeforeSignal ==
    [][/\ \A e \in Enqs :
             Signals(e) => /\ enq[e].message_id \in MsgIds
                           /\ messages[enq[e].message_id].device_id = enq[e].device_id
       /\ \A p \in Polls :
             (poll[p].woken /\ poll[p].pc = "select" /\ poll'[p].pc = "head")
             => \A e \in Enqs :
                   (enq[e].result = "200" /\ enq[e].device_id = poll[p].device_id)
                   => \/ messages[enq[e].message_id].state
                            \in {"delivered", "played", "failed"}
                      \/ IsoToDt(messages[enq[e].message_id].expires_at) <= now]_vars

\* C30: for every requested timeout N the effective timeout is
\* max(1, min(120, N)) seconds: the deadline a poll sets on entry lies that
\* long after the entry, hence between 1 and 120 seconds after it.
C30_TimeoutClamp ==
    [][\A p \in Polls :
          (poll[p].deadline = NoTime /\ poll'[p].deadline # NoTime)
          => LET N == poll[p].timeout
                 least == IF 120 < N THEN 120 ELSE N
                 effective == IF 1 > least THEN 1 ELSE least
             IN /\ poll'[p].deadline = now + Seconds(effective)
                /\ poll'[p].deadline >= now + Seconds(1)
                /\ poll'[p].deadline <= now + Seconds(120)]_vars

\* a poll that asked for less than a second and a poll that asked for more
\* than 120 have set their deadlines
C30_Witness ==
    \E p, q \in Polls :
        /\ poll[p].timeout < 1 /\ poll[p].pc = "waiting"
        /\ poll[p].timer = poll[p].deadline
        /\ poll[q].timeout > 120 /\ poll[q].pc = "waiting"
        /\ poll[q].timer = poll[q].deadline
        /\ poll[q].deadline - poll[p].deadline >= Seconds(119) - MaxTime

\* the step in which enqueue e stores its row
Inserts(e) == enq[e].pc = "insert" /\ enq'[e].pc = "notify"

\* C31: a message whose expiry came from ttlSeconds or from the default TTL
\* is stored with expires_at - created_at equal to that TTL, at most 86400
\* seconds; a message of a request that gave expiresAt is stored with that
\* timestamp, later than created_at, whatever its ttlSeconds.
C31_LifetimeByTtl ==
    [][\A e \in Enqs :
          Inserts(e)
          => LET m == messages'[Len(messages')]
                 life == IsoToDt(m.expires_at) - IsoToDt(m.created_at)
             IN  /\ life > 0
                 /\ IF enq[e].expiresAt = NoTime
                    THEN /\ life = Seconds(IF enq[e].ttlSeconds = NoTime
                                           THEN 600 ELSE enq[e].ttlSeconds)
                         /\ life <= Seconds(86400)
                    ELSE IsoToDt(m.expires_at) = IsoToDt(enq[e].expiresAt)]_vars

\* a request that gave both ttlSeconds and an expiresAt more than a day
\* ahead has stored its row
C31_Witness ==
    \E e \in Enqs :
        /\ enq[e].pc = "notify"
        /\ enq[e].ttlSeconds # NoTime /\ enq[e].expiresAt # NoTime
        /\ IsoToDt(messages[enq[e].message_id].expires_at)
              > IsoToDt(messages[enq[e].message_id].created_at) + Seconds(86400)

\* C31 as stated: every stored message has expires_at - created_at <= 86400
\* seconds, whatever its expiry came from.
C31_LifetimeBound ==
    \A m \in MsgIds :
        IsoToDt(messages[m].expires_at) - IsoToDt(messages[m].created_at)
            <= Seconds(86400)

\* C32: device isolation: the message a poll returns is one of its device;
\* a row changes only in the sweep or the delivery of a poll of the row's
\* own device, so no enqueue and no poll or sweep of another device changes
\* it; its device_id never changes.
C32_DeviceIsolation ==
    [][/\ \A p \in Polls :
             poll'[p].result = "200"
             => messages'[poll'[p].row].device_id = poll'[p].device_id
       /\ Len(messages') >= Len(messages)
       /\ \A m \in MsgIds :
             messages'[m] # messages[m]
             => /\ messages'[m].device_id = messages[m].device_id
                /\ \E p \in Polls :
                      /\ poll[p].pc \in {"sweep", "deliver"}
                      /\ poll'[p].pc # poll[p].pc
                      /\ poll[p].device_id = messages[m].device_id]_vars

\* a poll of one device has run its sweep while a message of the other
\* device is queued with an expires_at that the sweep's comparison matches
C32_Witness ==
    \E p \in Polls, m \in MsgIds :
        /\ poll[p].pc = "select"
        /\ messages[m].device_id # poll[p].device_id
        /\ messages[m].state = "queued"
        /\ messages[m].expires_at <= DtToIso(now)

\* C33: a delivered message leaves that state only in the UPDATE of an Ack
\* for it that carried the token of its device: no sweep, poll or enqueue
\* changes it, before or after its expires_at.
C33_DeliveredUntilAck ==
    [][\A m \in MsgIds :
          (messages[m].state = "delivered" /\ messages'[m].state # "delivered")
          => \E a \in Acks :
                /\ ack[a].pc = "write" /\ ack'[a].pc = "done"
                /\ ack[a].message_id = m
                /\ ack[a].token = devices[messages[m].device_id].device_token
                /\ messages'[m].state = ack[a].new_state]_vars

\* a message is delivered and has reached its expires_at, also by the
\* comparison of the sweep, no Ack has been stored, and another poll of its
\* device is between its sweep and its SELECT
C33_Witness ==
    \E m \in MsgIds, p \in Polls :
        /\ messages[m].state = "delivered"
        /\ IsoToDt(messages[m].expires_at) <= now
        /\ messages[m].expires_at <= DtToIso(now)
        /\ poll[p].pc = "select" /\ poll[p].device_id = messages[m].device_id
        /\ \A a \in Acks : ack[a].result # "200"

====
